---- MODULE Spec2Model ----
(***************************************************************************)
(* Model of providerutils/utils.go: the inventory content builder          *)
(* (buildInventoryFileContent and its formatting helpers), the conversion  *)
(* InterfaceToString and the orchestration BuildPlaybookInventory.         *)
(*                                                                         *)
(* Go strings are modelled as sequences of byte values, so that the text   *)
(* the builder returns is the byte sequence the code writes and            *)
(* sort.Strings is the bytewise lexicographic order.  Go maps are          *)
(* functions; ranging over a map yields its keys in an order chosen by a   *)
(* nondeterministic seed.                                                  *)
(***************************************************************************)
EXTENDS Integers, Sequences, FiniteSets, TLC

VARIABLES
    pc,          \* position of the modelled call
    hosts,       \* []InventoryHost handed to the caller-facing operation
    groups,      \* []InventoryGroup handed to the caller-facing operation
    results,     \* what each call of buildInventoryFileContent on (hosts, groups) returned
    hostname,    \* BuildPlaybookInventory: fallback hostname
    port,        \* BuildPlaybookInventory: fallback port
    hostgroups,  \* BuildPlaybookInventory: fallback groups, []interface{}
    createOK,    \* whether os.CreateTemp succeeds
    writeOK,     \* whether fileInfo.WriteString succeeds
    builtHosts,  \* the hosts slice BuildPlaybookInventory hands to the builder
    pbContent,   \* the text BuildPlaybookInventory got from the builder
    fileText,    \* bytes written to the temp file
    retPath,     \* path returned by BuildPlaybookInventory
    pbDiags,     \* diagnostics returned by BuildPlaybookInventory
    arr,         \* InterfaceToString: the input []interface{}
    itsResult,   \* InterfaceToString: the returned []string
    itsDiags     \* InterfaceToString: the returned diagnostics

vars == <<pc, hosts, groups, results,
          hostname, port, hostgroups, createOK, writeOK,
          builtHosts, pbContent, fileText, retPath, pbDiags, arr, itsResult, itsDiags>>

-----------------------------------------------------------------------------
(* Bounds of the model *)

\* hosts plus groups handed to one call of the builder
MaxRecords == 3

\* calls of the builder on one input
MaxRuns == 2

\* length of a []interface{} handed to InterfaceToString
MaxArr == 3

\* length of the fallback group list handed to BuildPlaybookInventory
MaxHostGroups == 2

-----------------------------------------------------------------------------
(* Byte strings *)

Empty == <<>>

\* const DefaultHostGroup = "default"
DefaultHostGroup == <<100, 101, 102, 97, 117, 108, 116>>

\* the sentinel of an unset port
UnsetPort == -1

LF == <<10>>
Space == <<32>>
DQuote == <<34>>
Minus == <<45>>
Equals == <<61>>
LBracket == <<91>>
RBracket == <<93>>
VarsSuffix == <<58, 118, 97, 114, 115>>
ChildrenSuffix == <<58, 99, 104, 105, 108, 100, 114, 101, 110>>
AnsiblePort == <<97, 110, 115, 105, 98, 108, 101, 95, 112, 111, 114, 116>>

\* Go's string comparison a < b: bytewise lexicographic
RECURSIVE StrLess(_, _)
StrLess(a, b) ==
    IF a = <<>> THEN b # <<>>
    ELSE IF b = <<>> THEN FALSE
    ELSE IF a[1] = b[1] THEN StrLess(Tail(a), Tail(b))
    ELSE a[1] < b[1]

\* insertion of one string into an ascending slice
RECURSIVE InsertSorted(_, _)
InsertSorted(s, x) ==
    IF s = <<>> THEN <<x>>
    ELSE IF StrLess(x, s[1]) THEN <<x>> \o s
    ELSE <<s[1]>> \o InsertSorted(Tail(s), x)

\* sort.Strings: the slice in ascending order
RECURSIVE SortStrings(_)
SortStrings(s) ==
    IF s = <<>> THEN <<>>
    ELSE InsertSorted(SortStrings(Tail(s)), s[1])

\* concatenation of a slice of strings
RECURSIVE Flatten(_)
Flatten(ss) ==
    IF ss = <<>> THEN <<>> ELSE ss[1] \o Flatten(Tail(ss))

Reverse(s) == [i \in 1..Len(s) |-> s[Len(s) + 1 - i]]

Rotate(s, k) ==
    IF s = <<>> THEN s
    ELSE [i \in 1..Len(s) |-> s[((i - 1 + k) % Len(s)) + 1]]

RECURSIVE SetToSeq(_)
SetToSeq(S) ==
    IF S = {} THEN <<>>
    ELSE LET x == CHOOSE y \in S : TRUE
         IN <<x>> \o SetToSeq(S \ {x})

\* the iteration orders of a Go map: a rotation of the keys, forwards or
\* backwards (every order of a map of up to three keys)
Seeds == {0, 1, 2} \X BOOLEAN

\* `for key := range m`: the keys of a map in the order the seed picks
MapRange(S, seed) ==
    LET base == Rotate(SortStrings(SetToSeq(S)), seed[1])
    IN IF seed[2] THEN Reverse(base) ELSE base

\* a map with no entry
EmptyMap == <<>>

\* len(m) of a map
MapLen(m) == Cardinality(DOMAIN m)

-----------------------------------------------------------------------------
(* strconv *)

HexDigit(n) == IF n < 10 THEN 48 + n ELSE 87 + n

\* strconv.Quote, one byte of an ASCII string
QuoteByte(c) ==
    IF c = 34 THEN <<92, 34>>
    ELSE IF c = 92 THEN <<92, 92>>
    ELSE IF c = 7 THEN <<92, 97>>
    ELSE IF c = 8 THEN <<92, 98>>
    ELSE IF c = 12 THEN <<92, 102>>
    ELSE IF c = 10 THEN <<92, 110>>
    ELSE IF c = 13 THEN <<92, 114>>
    ELSE IF c = 9 THEN <<92, 116>>
    ELSE IF c = 11 THEN <<92, 118>>
    ELSE IF c < 32 \/ c = 127 THEN <<92, 120, HexDigit(c \div 16), HexDigit(c % 16)>>
    ELSE <<c>>

\* strconv.Quote of an ASCII string
Quote(s) == DQuote \o Flatten([i \in 1..Len(s) |-> QuoteByte(s[i])]) \o DQuote

RECURSIVE Digits(_)
Digits(n) ==
    IF n < 10 THEN <<48 + n>> ELSE Digits(n \div 10) \o <<48 + (n % 10)>>

\* strconv.Itoa
Itoa(n) == IF n < 0 THEN Minus \o Digits(0 - n) ELSE Digits(n)

-----------------------------------------------------------------------------
(* formatInventoryHostLine, formatInventoryVariables *)

RECURSIVE HostLineFrom(_, _, _)
HostLineFrom(line, keys, variables) ==
    IF keys = <<>> THEN line
    ELSE HostLineFrom(line \o Space \o keys[1] \o Equals \o Quote(variables[keys[1]]),
                      Tail(keys), variables)

\* the sorted key slice of formatInventoryHostLine
HostLineKeys(variables, seed) == SortStrings(MapRange(DOMAIN variables, seed))

formatInventoryHostLine(hostname_, variables, seed) ==
    IF MapLen(variables) = 0 THEN hostname_
    ELSE HostLineFrom(hostname_, HostLineKeys(variables, seed), variables)

\* the sorted key slice of formatInventoryVariables
VariableKeys(vars_, seed) == SortStrings(MapRange(DOMAIN vars_, seed))

formatInventoryVariables(vars_, seed) ==
    LET keys == VariableKeys(vars_, seed)
    IN Flatten([i \in 1..Len(keys) |->
                   keys[i] \o Equals \o Quote(vars_[keys[i]]) \o LF])

-----------------------------------------------------------------------------
(* buildInventoryFileContent *)

\* m[k] = v on a Go map
MapPut(m, k, v) == [x \in (DOMAIN m) \cup {k} |-> IF x = k THEN v ELSE m[x]]

\* m[k] of a map of slices: nil (the empty slice) for a missing key
MapGet(m, k) == IF k \in DOMAIN m THEN m[k] ELSE <<>>

\* the four local maps and the diagnostics, all empty
EmptyBuild ==
    [diags |-> <<>>, groupNames |-> {}, groupHosts |-> EmptyMap,
     groupVars |-> EmptyMap, groupChildren |-> EmptyMap]

\* GroupStep without the `continue` after the diagnostic
GroupStep_NoContinue(st, group) ==
    [st EXCEPT
       !.diags = IF group.Name = Empty
                 THEN Append(@, "Inventory group is missing a name")
                 ELSE @,
       !.groupNames = @ \cup {group.Name},
       !.groupChildren = IF Len(group.Children) > 0
                         THEN MapPut(@, group.Name, group.Children)
                         ELSE @,
       !.groupVars = IF MapLen(group.Variables) > 0
                     THEN MapPut(@, group.Name, group.Variables)
                     ELSE @]

\* one iteration of the loop over groups
GroupStep(st, group) ==
    IF group.Name = Empty
    THEN [st EXCEPT !.diags = Append(@, "Inventory group is missing a name")]
    ELSE [st EXCEPT
            !.groupNames = @ \cup {group.Name},
            !.groupChildren = IF Len(group.Children) > 0
                              THEN MapPut(@, group.Name, group.Children)
                              ELSE @,
            !.groupVars = IF MapLen(group.Variables) > 0
                          THEN MapPut(@, group.Name, group.Variables)
                          ELSE @]

\* EffectiveGroups without the fallback to the default group
EffectiveGroups_NoDefault(host) == host.Groups

\* hostGroups of a host: its Groups, or the default group when it has none
EffectiveGroups(host) ==
    IF Len(host.Groups) = 0 THEN <<DefaultHostGroup>> ELSE host.Groups

\* AddHostLine without the registration of the group name
AddHostLine_NoRegister(st, groupName, line) ==
    IF groupName = Empty THEN st
    ELSE [st EXCEPT
            !.groupHosts = MapPut(@, groupName, Append(MapGet(@, groupName), line))]

\* one iteration of the loop over hostGroups
AddHostLine(st, groupName, line) ==
    IF groupName = Empty THEN st
    ELSE [st EXCEPT
            !.groupNames = @ \cup {groupName},
            !.groupHosts = MapPut(@, groupName, Append(MapGet(@, groupName), line))]

RECURSIVE AddHostLines(_, _, _)
AddHostLines(st, hostGroups, line) ==
    IF hostGroups = <<>> THEN st
    ELSE AddHostLines(AddHostLine(st, hostGroups[1], line), Tail(hostGroups), line)

\* one iteration of the loop over hosts
HostStep(st, host, seed) ==
    IF host.Name = Empty
    THEN [st EXCEPT !.diags = Append(@, "Inventory host is missing a name")]
    ELSE AddHostLines(st, EffectiveGroups(host),
                      formatInventoryHostLine(host.Name, host.Variables, seed))

RECURSIVE GroupPass(_, _)
GroupPass(st, gs) ==
    IF gs = <<>> THEN st ELSE GroupPass(GroupStep(st, gs[1]), Tail(gs))

RECURSIVE HostPass(_, _, _)
HostPass(st, hs, seed) ==
    IF hs = <<>> THEN st ELSE HostPass(HostStep(st, hs[1], seed), Tail(hs), seed)

\* SortedGroupNames without sort.Strings
SortedGroupNames_Unsorted(groupNames, seed) == MapRange(groupNames, seed)

\* sortedGroupNames: the keys of groupNames, collected and sorted
SortedGroupNames(groupNames, seed) == SortStrings(MapRange(groupNames, seed))

\* SortedHostLines without sort.Strings
SortedHostLines_Unsorted(st, groupName) == MapGet(st.groupHosts, groupName)

\* the host lines of one group, sorted
SortedHostLines(st, groupName) == SortStrings(MapGet(st.groupHosts, groupName))

\* the children of one group, sorted
SortedChildren(children) == SortStrings(children)

\* the [g:vars] block of one group
VarsBlock(st, groupName, seed) ==
    IF groupName \in DOMAIN st.groupVars /\ MapLen(st.groupVars[groupName]) > 0
    THEN LBracket \o groupName \o VarsSuffix \o RBracket \o LF
         \o formatInventoryVariables(st.groupVars[groupName], seed) \o LF
    ELSE <<>>

\* ChildrenBlock without the blank line that ends it
ChildrenBlock_NoBlank(st, groupName) ==
    IF groupName \in DOMAIN st.groupChildren /\ Len(st.groupChildren[groupName]) > 0
    THEN LET sortedChildren == SortStrings(st.groupChildren[groupName])
         IN LBracket \o groupName \o ChildrenSuffix \o RBracket \o LF
            \o Flatten([i \in 1..Len(sortedChildren) |-> sortedChildren[i] \o LF])
    ELSE <<>>

\* the [g:children] block of one group
ChildrenBlock(st, groupName) ==
    IF groupName \in DOMAIN st.groupChildren /\ Len(st.groupChildren[groupName]) > 0
    THEN LET sortedChildren == SortedChildren(st.groupChildren[groupName])
         IN LBracket \o groupName \o ChildrenSuffix \o RBracket \o LF
            \o Flatten([i \in 1..Len(sortedChildren) |-> sortedChildren[i] \o LF])
            \o LF
    ELSE <<>>

\* one iteration of the rendering loop
RenderGroup(st, groupName, seed) ==
    LET hostLines == SortedHostLines(st, groupName)
    IN LBracket \o groupName \o RBracket \o LF
       \o Flatten([i \in 1..Len(hostLines) |-> hostLines[i] \o LF])
       \o LF
       \o VarsBlock(st, groupName, seed)
       \o ChildrenBlock(st, groupName)

buildInventoryFileContent(hs, gs, seed) ==
    LET st == HostPass(GroupPass(EmptyBuild, gs), hs, seed)
        sortedGroupNames == SortedGroupNames(st.groupNames, seed)
    IN [content |-> Flatten([i \in 1..Len(sortedGroupNames) |->
                                RenderGroup(st, sortedGroupNames[i], seed)]),
        diags |-> st.diags]

-----------------------------------------------------------------------------
(* InterfaceToString *)

\* an interface{} holding a string
StringValue(str) == [kind |-> "string", val |-> str]

\* an interface{} holding an int, val its decimal text
IntValue(text) == [kind |-> "int", val |-> text]

\* tmpVal, ok := val.(string): the zero value "" when val holds no string
AssertString(val) ==
    IF val.kind = "string" THEN [tmpVal |-> val.val, ok |-> TRUE]
    ELSE [tmpVal |-> Empty, ok |-> FALSE]

\* one iteration of the loop of InterfaceToString
ConvertStep(acc, val) ==
    LET a == AssertString(val)
    IN [result |-> Append(acc.result, a.tmpVal),
        diags |-> IF a.ok THEN acc.diags
                  ELSE Append(acc.diags, "Error: couldn't parse value to string!")]

RECURSIVE ConvertFrom(_, _)
ConvertFrom(acc, rest) ==
    IF rest = <<>> THEN acc ELSE ConvertFrom(ConvertStep(acc, rest[1]), Tail(rest))

InterfaceToString(arr_) == ConvertFrom([result |-> <<>>, diags |-> <<>>], arr_)

-----------------------------------------------------------------------------
(* Inputs: names are one-letter identifiers, `default` or the empty string;  *)
(* a record may lack its name, and a Groups or Children list may hold an     *)
(* empty string (what InterfaceToString leaves for a non-string element).    *)

A == <<97>>
B == <<98>>
J == <<106>>
K == <<107>>
V == <<118>>
W == <<119>>
X == <<120>>
\* a value with a double quote, a space and a backslash
Q == <<34, 32, 92>>

OneVar == [k \in {K} |-> V]
TwoVars == [k \in {J, K} |-> IF k = J THEN Q ELSE V]

HostSet ==
    { [Name |-> Empty, Groups |-> <<W>>,                   Variables |-> EmptyMap],
      [Name |-> A,     Groups |-> <<>>,                    Variables |-> EmptyMap],
      [Name |-> B,     Groups |-> <<>>,                    Variables |-> OneVar],
      [Name |-> A,     Groups |-> <<W>>,                   Variables |-> TwoVars],
      [Name |-> B,     Groups |-> <<W>>,                   Variables |-> EmptyMap],
      [Name |-> A,     Groups |-> <<Empty>>,               Variables |-> EmptyMap],
      [Name |-> B,     Groups |-> <<X, DefaultHostGroup>>, Variables |-> EmptyMap] }

GroupSet ==
    { [Name |-> Empty, Children |-> <<X>>,                   Variables |-> OneVar],
      [Name |-> W,     Children |-> <<>>,                    Variables |-> EmptyMap],
      [Name |-> W,     Children |-> <<>>,                    Variables |-> TwoVars],
      [Name |-> W,     Children |-> <<X, DefaultHostGroup>>, Variables |-> EmptyMap],
      [Name |-> X,     Children |-> <<W>>,                   Variables |-> OneVar],
      [Name |-> X,     Children |-> <<Empty, W>>,            Variables |-> EmptyMap],
      [Name |-> DefaultHostGroup, Children |-> <<>>,         Variables |-> EmptyMap] }

\* the sequences over S of length at most n
SeqsUpTo(S, n) == UNION {[1..k -> S] : k \in 0..n}

NoPath == "none"
TempPath == "tempfile"

-----------------------------------------------------------------------------
(* Calls of buildInventoryFileContent on one input *)

InitBuilder ==
    /\ pc = "builder"
    /\ \E n \in 0..MaxRecords :
          /\ hosts \in SeqsUpTo(HostSet, n)
          /\ groups \in SeqsUpTo(GroupSet, MaxRecords - n)
    /\ results = <<>>
    /\ hostname = Empty
    /\ port = UnsetPort
    /\ hostgroups = <<>>
    /\ createOK = TRUE
    /\ writeOK = TRUE
    /\ builtHosts = <<>>
    /\ pbContent = <<>>
    /\ fileText = <<>>
    /\ retPath = NoPath
    /\ pbDiags = <<>>
    /\ arr = <<>>
    /\ itsResult = <<>>
    /\ itsDiags = <<>>

CallBuilder ==
    /\ pc = "builder"
    /\ Len(results) < MaxRuns
    /\ \E seed \in Seeds :
          results' = Append(results, buildInventoryFileContent(hosts, groups, seed))
    /\ UNCHANGED <<pc, hosts, groups, hostname, port, hostgroups, createOK, writeOK,
                   builtHosts, pbContent, fileText, retPath, pbDiags, arr, itsResult, itsDiags>>

NextBuilder == CallBuilder

SpecBuilder == InitBuilder /\ [][NextBuilder]_vars

-----------------------------------------------------------------------------
(* BuildPlaybookInventory *)

\* hostGroups of the fallback host: the converted list, or the default group
FallbackGroups(converted) ==
    IF Len(converted) = 0 THEN Append(converted, DefaultHostGroup) ELSE converted

\* FallbackVars with 0 taken for the sentinel
FallbackVars_ZeroSentinel(port_) ==
    IF port_ # 0 THEN [k \in {AnsiblePort} |-> Itoa(port_)] ELSE EmptyMap

\* hostVars of the fallback host
FallbackVars(port_) ==
    IF port_ # UnsetPort THEN [k \in {AnsiblePort} |-> Itoa(port_)] ELSE EmptyMap

\* the hosts handed to the builder, with the conversion's diagnostics
ResolveHosts(inventoryHosts, hostname_, port_, hostgroups_) ==
    IF Len(inventoryHosts) = 0
    THEN LET conv == InterfaceToString(hostgroups_)
         IN [hosts |-> Append(inventoryHosts,
                              [Name |-> hostname_,
                               Groups |-> FallbackGroups(conv.result),
                               Variables |-> FallbackVars(port_)]),
             diags |-> conv.diags]
    ELSE [hosts |-> inventoryHosts, diags |-> <<>>]

H == <<104>>

\* the []interface{} elements the fallback group list is drawn from
HostGroupValues == {StringValue(W), StringValue(Empty), IntValue(<<52, 50>>)}

\* the explicit host lists BuildPlaybookInventory is called with
PlaybookHostLists == {<<>>} \cup {<<h>> : h \in HostSet}

\* the explicit group lists BuildPlaybookInventory is called with
PlaybookGroupLists == {<<>>} \cup {<<g>> : g \in {x \in GroupSet : x.Name = W}}

PortSet == {UnsetPort, 0, 22}

InitPlaybook ==
    /\ pc = "playbook"
    /\ hosts \in PlaybookHostLists
    /\ groups \in PlaybookGroupLists
    /\ results = <<>>
    /\ hostname \in {Empty, H}
    /\ port \in PortSet
    /\ hostgroups \in SeqsUpTo(HostGroupValues, MaxHostGroups)
    /\ createOK \in BOOLEAN
    /\ writeOK \in BOOLEAN
    /\ builtHosts = <<>>
    /\ pbContent = <<>>
    /\ fileText = <<>>
    /\ retPath = NoPath
    /\ pbDiags = <<>>
    /\ arr = <<>>
    /\ itsResult = <<>>
    /\ itsDiags = <<>>

\* os.CreateTemp failed: fileInfo is nil, and fileInfo.Name() dereferences it
PlaybookPanics ==
    /\ pc = "playbook"
    /\ ~createOK
    /\ pc' = "panicked"
    /\ UNCHANGED <<hosts, groups, results, hostname, port, hostgroups, createOK,
                   writeOK, builtHosts, pbContent, fileText, retPath, pbDiags,
                   arr, itsResult, itsDiags>>

\* os.CreateTemp succeeded: the call runs to its return
PlaybookReturns ==
    /\ pc = "playbook"
    /\ createOK
    /\ \E seed \in Seeds :
          LET resolved == ResolveHosts(hosts, hostname, port, hostgroups)
              built == buildInventoryFileContent(resolved.hosts, groups, seed)
          IN /\ builtHosts' = resolved.hosts
             /\ pbContent' = built.content
             /\ fileText' = IF writeOK THEN built.content ELSE <<>>
             /\ pbDiags' = resolved.diags \o built.diags
                           \o (IF writeOK THEN <<>> ELSE <<"Fail to write inventory">>)
    /\ retPath' = TempPath
    /\ pc' = "returned"
    /\ UNCHANGED <<hosts, groups, results, hostname, port, hostgroups, createOK,
                   writeOK, arr, itsResult, itsDiags>>

BuildPlaybookInventory == PlaybookPanics \/ PlaybookReturns

NextPlaybook == BuildPlaybookInventory

SpecPlaybook == InitPlaybook /\ [][NextPlaybook]_vars

-----------------------------------------------------------------------------
(* A call of InterfaceToString *)

\* the []interface{} elements InterfaceToString is applied to
ArrValues == {StringValue(W), StringValue(X), StringValue(Empty), IntValue(<<52, 50>>)}

InitConvert ==
    /\ pc = "convert"
    /\ hosts = <<>>
    /\ groups = <<>>
    /\ results = <<>>
    /\ hostname = Empty
    /\ port = UnsetPort
    /\ hostgroups = <<>>
    /\ createOK = TRUE
    /\ writeOK = TRUE
    /\ builtHosts = <<>>
    /\ pbContent = <<>>
    /\ fileText = <<>>
    /\ retPath = NoPath
    /\ pbDiags = <<>>
    /\ arr \in SeqsUpTo(ArrValues, MaxArr)
    /\ itsResult = <<>>
    /\ itsDiags = <<>>

CallInterfaceToString ==
    /\ pc = "convert"
    /\ LET r == InterfaceToString(arr)
       IN /\ itsResult' = r.result
          /\ itsDiags' = r.diags
    /\ pc' = "converted"
    /\ UNCHANGED <<hosts, groups, results, hostname, port, hostgroups, createOK,
                   writeOK, builtHosts, pbContent, fileText, retPath, pbDiags, arr>>

NextConvert == CallInterfaceToString

SpecConvert == InitConvert /\ [][NextConvert]_vars

-----------------------------------------------------------------------------
(* Reading the returned text back: lines, headings, blocks *)

RECURSIVE SplitLinesFrom(_, _)
SplitLinesFrom(text, cur) ==
    IF text = <<>> THEN (IF cur = <<>> THEN <<>> ELSE <<cur>>)
    ELSE IF text[1] = 10 THEN <<cur>> \o SplitLinesFrom(Tail(text), <<>>)
    ELSE SplitLinesFrom(Tail(text), Append(cur, text[1]))

\* the lines of a text, each without its line feed
SplitLines(text) == SplitLinesFrom(text, <<>>)

HasSuffix(str, suffix) ==
    /\ Len(str) >= Len(suffix)
    /\ SubSeq(str, Len(str) - Len(suffix) + 1, Len(str)) = suffix

IsHeading(line) == Len(line) >= 2 /\ line[1] = 91 /\ line[Len(line)] = 93

HeadingInner(line) == SubSeq(line, 2, Len(line) - 1)

\* "group", "vars" or "children" for a heading line, "body" for any other line
LineKind(line) ==
    IF ~IsHeading(line) THEN "body"
    ELSE IF HasSuffix(HeadingInner(line), VarsSuffix) THEN "vars"
    ELSE IF HasSuffix(HeadingInner(line), ChildrenSuffix) THEN "children"
    ELSE "group"

\* the group name a heading line carries
HeadingName(line) ==
    LET inner == HeadingInner(line)
    IN IF LineKind(line) = "vars" THEN SubSeq(inner, 1, Len(inner) - Len(VarsSuffix))
       ELSE IF LineKind(line) = "children"
            THEN SubSeq(inner, 1, Len(inner) - Len(ChildrenSuffix))
       ELSE inner

\* the indices of the heading lines
HeadingIndices(lines) == {i \in 1..Len(lines) : IsHeading(lines[i])}

\* the lines between heading i and the next heading (or the end)
BlockBody(lines, i) ==
    LET later == {j \in HeadingIndices(lines) : j > i}
        stop == IF later = {} THEN Len(lines) + 1
                ELSE CHOOSE j \in later : \A k \in later : j <= k
    IN SubSeq(lines, i + 1, stop - 1)

\* the blocks of a text in order: kind, group name and body lines of each
Blocks(text) ==
    LET lines == SplitLines(text)
        idx == HeadingIndices(lines)
        ordered == [n \in 1..Cardinality(idx) |->
                       CHOOSE i \in idx : Cardinality({j \in idx : j < i}) = n - 1]
    IN [n \in 1..Len(ordered) |->
           [kind |-> LineKind(lines[ordered[n]]),
            name |-> HeadingName(lines[ordered[n]]),
            body |-> BlockBody(lines, ordered[n])]]

\* a block's lines without the blank line that ends it
Entries(block) ==
    IF block.body = <<>> THEN <<>> ELSE SubSeq(block.body, 1, Len(block.body) - 1)

\* the lines of a text before its first heading
Preamble(text) ==
    LET lines == SplitLines(text)
    IN {i \in 1..Len(lines) : \A j \in HeadingIndices(lines) : i < j}

\* the text up to the first occurrence of a byte
RECURSIVE UpTo(_, _)
UpTo(str, byte) ==
    IF str = <<>> \/ str[1] = byte THEN <<>>
    ELSE <<str[1]>> \o UpTo(Tail(str), byte)

\* the host name a host line starts with
LineHost(line) == UpTo(line, 32)

\* the keys of a host line, in order: a scan that skips the quoted values
RECURSIVE ScanKeys(_, _, _, _)
ScanKeys(line, i, mode, cur) ==
    IF i > Len(line) THEN <<>>
    ELSE IF mode = "name"
         THEN ScanKeys(line, i + 1, IF line[i] = 32 THEN "key" ELSE "name", <<>>)
    ELSE IF mode = "key"
         THEN IF line[i] = 61 THEN <<cur>> \o ScanKeys(line, i + 2, "value", <<>>)
              ELSE ScanKeys(line, i + 1, "key", Append(cur, line[i]))
    ELSE IF mode = "value"
         THEN IF line[i] = 92 THEN ScanKeys(line, i + 2, "value", <<>>)
              ELSE IF line[i] = 34 THEN ScanKeys(line, i + 1, "name", <<>>)
              ELSE ScanKeys(line, i + 1, "value", <<>>)
    ELSE <<>>

LineKeys(line) == ScanKeys(line, 1, "name", <<>>)

\* how often x occurs in a sequence
Occurrences(seq, x) == Cardinality({i \in 1..Len(seq) : seq[i] = x})

Ascending(seq) ==
    \A i \in 1..(Len(seq) - 1) : seq[i] = seq[i + 1] \/ StrLess(seq[i], seq[i + 1])

StrictlyAscending(seq) ==
    \A i \in 1..(Len(seq) - 1) : StrLess(seq[i], seq[i + 1])

\* the group blocks with a given name
GroupBlocks(bs, name) ==
    {n \in 1..Len(bs) : bs[n].kind = "group" /\ bs[n].name = name}

\* how many lines of a block are host lines of the host called `name`
LinesOfHost(block, name) ==
    Cardinality({i \in 1..Len(Entries(block)) : LineHost(Entries(block)[i]) = name})

RECURSIVE SumLinesOfHost(_, _, _)
SumLinesOfHost(bs, S, name) ==
    IF S = {} THEN 0
    ELSE LET n == CHOOSE m \in S : TRUE
         IN LinesOfHost(bs[n], name) + SumLinesOfHost(bs, S \ {n}, name)

\* how many host lines of the host called `name` stand under the headings [g]
HostLinesUnder(bs, g, name) == SumLinesOfHost(bs, GroupBlocks(bs, g), name)

\* the records of the input that carry a name
NamedHosts == {i \in 1..Len(hosts) : hosts[i].Name # Empty}
NamedGroups == {i \in 1..Len(groups) : groups[i].Name # Empty}

\* every group name the input or the blocks of a returned text mention
AllNames(bs) ==
    {DefaultHostGroup}
    \cup {groups[i].Name : i \in 1..Len(groups)}
    \cup UNION {{hosts[i].Groups[k] : k \in 1..Len(hosts[i].Groups)} : i \in 1..Len(hosts)}
    \cup {bs[n].name : n \in 1..Len(bs)}

\* the group list the data model gives a host: its Groups, or the one group `default`
Membership(host) == IF host.Groups = <<>> THEN <<DefaultHostGroup>> ELSE host.Groups

\* how many host lines of the named hosts called `name` belong under [g]
RECURSIVE ExpectedFrom(_, _, _)
ExpectedFrom(S, g, name) ==
    IF S = {} THEN 0
    ELSE LET i == CHOOSE j \in S : TRUE
         IN (IF hosts[i].Name = name THEN Occurrences(Membership(hosts[i]), g) ELSE 0)
            + ExpectedFrom(S \ {i}, g, name)

ExpectedUnder(g, name) == ExpectedFrom(NamedHosts, g, name)

\* the host names the input or the blocks of a returned text mention
AllHostNames(bs) ==
    {hosts[i].Name : i \in 1..Len(hosts)}
    \cup UNION {{LineHost(Entries(bs[n])[k]) : k \in 1..Len(Entries(bs[n]))} :
                n \in {m \in 1..Len(bs) : bs[m].kind = "group"}}

\* the names of the group headings, in the order they stand in the text
HeadingNames(bs) ==
    LET gs == SelectSeq(bs, LAMBDA b : b.kind = "group")
    IN [n \in 1..Len(gs) |-> gs[n].name]

\* a call of the builder has returned
Returned == Len(results) > 0

\* what the latest call of the builder returned
Latest == results[Len(results)]

-----------------------------------------------------------------------------
(* Claims about buildInventoryFileContent, under SpecBuilder *)

\* the non-empty names a group record with a name declares, or a host record
\* with a name is a member of (by its Groups, or by the default group)
KnownNames ==
    ({groups[i].Name : i \in NamedGroups}
     \cup UNION {{Membership(hosts[i])[k] : k \in 1..Len(Membership(hosts[i]))} :
                 i \in NamedHosts})
    \ {Empty}

\* the non-empty names any group record declares or any host record, with a
\* name or without, is a member of
MentionedNames ==
    ({groups[i].Name : i \in 1..Len(groups)}
     \cup UNION {{Membership(hosts[i])[k] : k \in 1..Len(Membership(hosts[i]))} :
                 i \in 1..Len(hosts)})
    \ {Empty}

\* C1, as amended: in the text a call returns, each non-empty group name that
\* a group record with a non-empty name declares, or that is in the membership
\* of a host record with a non-empty name (its Groups list, or `default` when
\* that list is empty), has exactly one [name] heading, and no other name has
\* a heading.
C1_OneHeadingPerKnownGroup ==
    Returned =>
       LET bs == Blocks(Latest.content)
       IN \A n \in AllNames(bs) :
             Cardinality(GroupBlocks(bs, n)) = IF n \in KnownNames THEN 1 ELSE 0

\* C1, as stated: each non-empty name declared by a group record or referenced
\* by any host record (by its Groups list, or as the default group of a host
\* without groups) has exactly one heading, and no heading stands for a name
\* that is neither.
C1_Original ==
    Returned =>
       LET bs == Blocks(Latest.content)
       IN \A n \in AllNames(bs) :
             Cardinality(GroupBlocks(bs, n)) = IF n \in MentionedNames THEN 1 ELSE 0

\* a text was returned for an input that declares W twice and has a named host in W
C1_Witness ==
    /\ Returned
    /\ Cardinality({i \in NamedGroups : groups[i].Name = W}) >= 2
    /\ \E i \in NamedHosts : Occurrences(hosts[i].Groups, W) > 0
    /\ Cardinality(GroupBlocks(Blocks(Latest.content), W)) = 1

\* C2: in the text a call returns and for every host name, the host lines of
\* that name under a heading [g] are exactly those of the named host records
\* whose membership holds g: a host with an empty Groups list stands under
\* [default] and nowhere else, a host with Groups stands under the sections its
\* list names and nowhere else.
C2_HostsUnderTheirGroups ==
    Returned =>
       LET bs == Blocks(Latest.content)
       IN \A g \in AllNames(bs) :
             \A name \in AllHostNames(bs) :
                HostLinesUnder(bs, g, name)
                   = IF g = Empty THEN 0 ELSE ExpectedUnder(g, name)

\* a text was returned for a host without groups and a host in X and default
C2_Witness ==
    /\ Returned
    /\ \E i \in NamedHosts, j \in NamedHosts :
          LET bs == Blocks(Latest.content)
          IN /\ hosts[i].Groups = <<>>
             /\ hosts[j].Groups = <<X, DefaultHostGroup>>
             /\ hosts[i].Name # hosts[j].Name
             /\ HostLinesUnder(bs, DefaultHostGroup, hosts[i].Name) = 1
             /\ HostLinesUnder(bs, X, hosts[i].Name) = 0
             /\ HostLinesUnder(bs, X, hosts[j].Name) = 1
             /\ HostLinesUnder(bs, DefaultHostGroup, hosts[j].Name) = 1

\* the blocks of a text are in order
SortedBlocks(bs) ==
    /\ StrictlyAscending(HeadingNames(bs))
    /\ \A n \in 1..Len(bs) :
          LET es == Entries(bs[n])
          IN /\ bs[n].kind \in {"group", "children"} => Ascending(es)
             /\ bs[n].kind = "group" =>
                   \A k \in 1..Len(es) : StrictlyAscending(LineKeys(es[k]))
             /\ bs[n].kind = "vars" =>
                   StrictlyAscending([k \in 1..Len(es) |-> UpTo(es[k], 61)])

\* C3: in the text a call returns the group headings are in ascending order
\* of group name, and within each group the host lines, the keys of the :vars
\* block, the keys of each host line and the names of the :children block are
\* in ascending order.
C3_EverythingSorted ==
    Returned => SortedBlocks(Blocks(Latest.content))

\* a text was returned for hosts B then A in group W, A with keys J and K,
\* and a group with children X then default
C3_Witness ==
    /\ Returned
    /\ Len(hosts) = 2
    /\ hosts[1].Name = B /\ hosts[1].Groups = <<W>>
    /\ hosts[2].Name = A /\ hosts[2].Groups = <<W>> /\ hosts[2].Variables = TwoVars
    /\ \E i \in NamedGroups : groups[i].Children = <<X, DefaultHostGroup>>
    /\ LET bs == Blocks(Latest.content)
       IN /\ bs[1].kind = "group"
          /\ Len(Entries(bs[1])) = 2
          /\ LineHost(Entries(bs[1])[1]) = A
          /\ LineKeys(Entries(bs[1])[1]) = <<J, K>>
          /\ bs[2].kind = "children"
          /\ Entries(bs[2]) = <<DefaultHostGroup, X>>

\* C4: all calls of the builder on one input return the same text and the
\* same diagnostics, whatever order the maps were iterated in.
C4_Deterministic ==
    \A r1 \in 1..Len(results), r2 \in 1..Len(results) : results[r1] = results[r2]

\* two calls returned, for an input with three group names and a two-key map
C4_Witness ==
    /\ Len(results) >= 2
    /\ Cardinality(KnownNames) >= 3
    /\ \E i \in NamedHosts : MapLen(hosts[i].Variables) = 2

\* the records with a name, in their order
NamedOnly(records) == SelectSeq(records, LAMBDA rec : rec.Name # Empty)

\* C5: a call returns one diagnostic per record without a name, and the text
\* returned for the input without those records.
C5_EmptyNamesSkipped ==
    Returned =>
       /\ Len(Latest.diags)
             = (Len(hosts) - Cardinality(NamedHosts))
               + (Len(groups) - Cardinality(NamedGroups))
       /\ \A seed \in Seeds :
             Latest.content
                = buildInventoryFileContent(NamedOnly(hosts), NamedOnly(groups), seed).content

\* a text was returned for a host without a name, a group without a name and
\* a host with a name
C5_Witness ==
    /\ Returned
    /\ Len(hosts) > Cardinality(NamedHosts)
    /\ Len(groups) > Cardinality(NamedGroups)
    /\ NamedHosts # {}
    /\ Len(Latest.diags) = 2
    /\ Latest.content # <<>>

\* the layout of a text, against the group records of the input
LayoutOf(text) ==
    LET bs == Blocks(text)
        declaresVars(g) ==
            \E i \in NamedGroups : groups[i].Name = g /\ MapLen(groups[i].Variables) > 0
        declaresChildren(g) ==
            \E i \in NamedGroups : groups[i].Name = g /\ Len(groups[i].Children) > 0
        hasVars(n) == n + 1 <= Len(bs) /\ bs[n + 1].kind = "vars"
        hasChildren(n) ==
            \/ n + 1 <= Len(bs) /\ bs[n + 1].kind = "children"
            \/ n + 2 <= Len(bs) /\ bs[n + 1].kind = "vars" /\ bs[n + 2].kind = "children"
    IN /\ Preamble(text) = {}
       /\ \A n \in 1..Len(bs) :
             /\ bs[n].body # <<>>
             /\ bs[n].body[Len(bs[n].body)] = Empty
             /\ bs[n].kind = "group" =>
                   /\ \A k \in 1..Len(Entries(bs[n])) : Entries(bs[n])[k] # Empty
                   /\ hasVars(n) <=> declaresVars(bs[n].name)
                   /\ hasChildren(n) <=> declaresChildren(bs[n].name)
             /\ bs[n].kind = "vars" =>
                   /\ n > 1 /\ bs[n - 1].kind = "group" /\ bs[n - 1].name = bs[n].name
                   /\ Len(Entries(bs[n])) >= 1
             /\ bs[n].kind = "children" =>
                   /\ n > 1 /\ bs[n - 1].kind \in {"group", "vars"}
                   /\ bs[n - 1].name = bs[n].name
                   /\ Len(Entries(bs[n])) >= 1
       /\ \A i \in NamedGroups :
             \E n \in 1..Len(bs) :
                /\ bs[n].kind = "group" /\ bs[n].name = groups[i].Name
                /\ (\A j \in NamedHosts : Occurrences(Membership(hosts[j]), groups[i].Name) = 0)
                      => Entries(bs[n]) = <<>>

\* C9: the text a call returns is a sequence of group sections, each a [g]
\* heading, its host lines and a blank line, then a [g:vars] block exactly
\* when a group record named g declares a variable, then a [g:children] block
\* exactly when a group record named g declares a child, every block ended by a
\* blank line; every declared group has its section, with no host line when no
\* host is a member.
C9_SectionLayout ==
    Returned => LayoutOf(Latest.content)

\* a text was returned with a section that has host lines only, for a group
\* no record declares, and a declared group without hosts that has both blocks
C9_Witness ==
    /\ Returned
    /\ \E i \in NamedHosts : hosts[i].Groups = <<X, DefaultHostGroup>>
    /\ \A i \in NamedGroups : groups[i].Name = W
    /\ \E i \in NamedGroups : groups[i].Variables = TwoVars
    /\ \E i \in NamedGroups : groups[i].Children = <<X, DefaultHostGroup>>
    /\ LET bs == Blocks(Latest.content)
       IN [n \in 1..Len(bs) |-> bs[n].kind]
             = <<"group", "group", "vars", "children", "group">>

\* C10, as stated: for every host record with a name, the returned text has a
\* host line of that name under some heading, or a diagnostic was returned.
C10_NoHostDroppedSilently ==
    Returned =>
       LET bs == Blocks(Latest.content)
       IN \A i \in NamedHosts :
             \/ \E g \in AllNames(bs) : HostLinesUnder(bs, g, hosts[i].Name) > 0
             \/ Len(Latest.diags) > 0

-----------------------------------------------------------------------------
(* Claims about BuildPlaybookInventory, under SpecPlaybook *)

\* the call is over, by a return or by a panic
PlaybookOver == pc \in {"returned", "panicked"}

\* the diagnostics of the filesystem steps among those returned
FilesystemDiags ==
    Cardinality({i \in 1..Len(pbDiags) :
                    pbDiags[i] \in {"Fail to create inventory file", "Fail to write inventory"}})

FailedSteps == (IF createOK THEN 0 ELSE 1) + (IF writeOK THEN 0 ELSE 1)

\* C6, as stated: whatever the filesystem steps do, the call runs to its
\* return and returns a path, with one diagnostic per failed step.
C6_AlwaysReturnsPath ==
    PlaybookOver =>
       /\ pc = "returned"
       /\ retPath # NoPath
       /\ FilesystemDiags = FailedSteps

\* the decimal text of the ports the calls are made with
DecimalText(p) == IF p = 0 THEN <<48>> ELSE <<50, 50>>

\* the host line the fallback host must have
FallbackLine ==
    hostname
    \o (IF port = UnsetPort THEN <<>>
        ELSE Space \o AnsiblePort \o Equals \o DQuote \o DecimalText(port) \o DQuote)

\* C7: a call that returns has synthesized a host exactly when the explicit
\* host list is empty: then the builder got one host, named by the fallback
\* hostname, its groups the fallback group list (`default` alone when that list
\* is empty), its variables ansible_port with the port in decimal exactly when
\* the port is not -1; with explicit hosts the builder got those hosts alone
\* and the text is the one they and the groups give.
C7_FallbackHost ==
    pc = "returned" =>
       /\ hosts = <<>> =>
             /\ Len(builtHosts) = 1
             /\ builtHosts[1].Name = hostname
             /\ hostgroups = <<>> => builtHosts[1].Groups = <<DefaultHostGroup>>
             /\ hostgroups # <<>> =>
                   /\ Len(builtHosts[1].Groups) = Len(hostgroups)
                   /\ \A k \in 1..Len(hostgroups) :
                         hostgroups[k].kind = "string"
                            => builtHosts[1].Groups[k] = hostgroups[k].val
             /\ port = UnsetPort => DOMAIN builtHosts[1].Variables = {}
             /\ port # UnsetPort =>
                   /\ DOMAIN builtHosts[1].Variables = {AnsiblePort}
                   /\ builtHosts[1].Variables[AnsiblePort] = DecimalText(port)
             /\ (hostname # Empty /\ hostgroups = <<>> /\ groups = <<>>) =>
                   pbContent = LBracket \o DefaultHostGroup \o RBracket \o LF
                               \o FallbackLine \o LF \o LF
       /\ hosts # <<>> =>
             /\ builtHosts = hosts
             /\ \A seed \in Seeds :
                   pbContent = buildInventoryFileContent(hosts, groups, seed).content
             /\ \A i \in 1..Len(pbDiags) :
                   pbDiags[i] # "Error: couldn't parse value to string!"

\* a call returned the text of the fallback host H with port 22 under [default]
C7_Witness ==
    /\ pc = "returned"
    /\ hosts = <<>>
    /\ hostname = H
    /\ port = 22
    /\ hostgroups = <<>>
    /\ groups = <<>>
    /\ LET bs == Blocks(pbContent)
       IN /\ Len(bs) = 1
          /\ bs[1].name = DefaultHostGroup
          /\ Entries(bs[1]) = <<FallbackLine>>

-----------------------------------------------------------------------------
(* Claims about InterfaceToString, under SpecConvert *)

\* the strings among the elements, in their order
StringsOf(values) ==
    LET strs == SelectSeq(values, LAMBDA v : v.kind = "string")
    IN [i \in 1..Len(strs) |-> strs[i].val]

\* C8, as stated: the call returns one diagnostic per element that is no
\* string, and the string elements alone, in their order.
C8_OnlyConvertedElements ==
    pc = "converted" =>
       /\ Len(itsDiags) = Len(arr) - Len(StringsOf(arr))
       /\ itsResult = StringsOf(arr)

====
